---- MODULE Spec2Model ----
(***************************************************************************)
(* Model of benefind.ai's conversational session controller                *)
(* (src/benefind.ai/src/pages/VoiceAgent.tsx) and of its eligibility       *)
(* estimate (src/benefind.ai/src/services/geminiService.ts).               *)
(*                                                                         *)
(* The React component VoiceAgent owns three pieces of state (messages,    *)
(* isTextMode, textInput) and reads the connection status from the         *)
(* useConversation hook of the conversational transport.  The transport    *)
(* is an external collaborator: its calls (startSession, endSession,       *)
(* sendUserMessage, getUserMedia) are promises that the environment        *)
(* settles, successfully or not, in separate steps.  Every handler is      *)
(* split exactly at its await points.                                      *)
(*                                                                         *)
(* checkEligibility is a function of its arguments alone: it is an         *)
(* operator, applied by an action that records the call.                   *)
(***************************************************************************)
EXTENDS Integers, Sequences, FiniteSets, Bags, TLC

\* ---------------------------------------------------------------- bounds
\* Number of handleStartSession invocations (clicked or deferred) in a run.
MaxStarts == 3
\* Number of handleEndSession invocations that may be awaiting at once.
MaxEnds == 1
\* Length of the message log explored: by SpecChat, and by Spec.
MaxMsgs == 2
MaxSessionMsgs == 1
\* The clock advances in steps of TickMs up to MaxTime (milliseconds).
TickMs == 150
MaxTime == 450
\* Math.random() suffixes are drawn from 0..MaxRnd.
MaxRnd == 1
\* checkEligibility is called with family sizes up to MaxFamily and with
\* whole-dollar incomes up to 400 * MaxIncomeSteps.
MaxFamily == 5
MaxIncomeSteps == 10
\* Response texts of up to MaxTextLen units, grounding chunk lists of up to
\* MaxChunks chunks, and up to MaxFetches fetchResults calls in a run.
MaxTextLen == 6
MaxChunks == 1
MaxFetches == 2

\* ------------------------------------------------------- program constants
\* setTimeout(..., 300) in handleToggleMode.
RestartDelayMs == 300

\* --------------------------------------------------------------- domains
Statuses == {"disconnected", "connecting", "connected"}
\* message.source values the transport may deliver to onMessage.
Sources == {"ai", "user", "system"}
\* Texts are sequences of characters, so that trimming is computed.
Texts == {<<"a">>, <<"b">>}
Inputs == {<<>>, <<" ">>, <<" ", "a", " ">>, <<"b">>}

VARIABLES
    status,        \* conversation.status as rendered (isConnected == status = "connected")
    isTextMode,    \* useState(false)
    textInput,     \* useState('')
    messages,      \* useState<Message[]>([])
    now,           \* Date.now()
    timers,        \* bag of pending setTimeout callbacks of handleToggleMode
    starts,        \* bag of handleStartSession invocations suspended at an await
    toggleWaiters, \* handleToggleMode invocations awaiting handleEndSession()
    endWaiters,    \* handleEndSession invocations (clicked) awaiting endSession()
    startCalls,    \* history: number of conversation.startSession calls
    sent,          \* history: texts handed to conversation.sendUserMessage
    arrived,       \* history: <<source, text>> of every ingested event and every
                   \* typed submission (source "typed"), in arrival order
    budget,        \* handleStartSession invocations still allowed in this run
    denied,        \* history: the modes of the starts that getUserMedia refused
    eligibility,   \* the latest checkEligibility call, if any: {} or {its arguments and outcome}
    step,          \* useState<Step>('landing')
    formData,      \* useState({state: '', zipcode: '', familySize: 1, income: 0})
    loading,       \* useState(false)
    results,       \* useState(null): {} or {[eligibility, resources]}
    fetches,       \* bag of fetchResults invocations awaiting getSnapResources
    snapCalls,     \* history: number of getSnapResources calls
    genCalls,      \* history: number of ai.models.generateContent calls
    alerts,        \* history: number of alert(...) dialogs shown
    received       \* history: the latest response of the generation service, {} or
                   \* {it, with the form its lookup was started from}

\* The state of the voice page.
sessionVars == <<status, isTextMode, textInput, messages, now, timers, starts,
                 toggleWaiters, endWaiters, startCalls, sent, arrived, budget, denied>>

\* The state outside the voice page.
wizardVars == <<step, formData, loading, results, fetches, snapCalls, genCalls,
                alerts, received>>

appVars == <<eligibility, wizardVars>>

vars == <<sessionVars, appVars>>

isConnected == status = "connected"

\* One bag holding r once.
One(r) == SetToBag({r})


Init ==
    /\ status = "disconnected"
    /\ isTextMode = FALSE
    /\ textInput = <<>>
    /\ messages = <<>>
    /\ now = 0
    /\ timers = EmptyBag
    /\ starts = EmptyBag
    /\ toggleWaiters = 0
    /\ endWaiters = 0
    /\ startCalls = 0
    /\ sent = <<>>
    /\ arrived = <<>>
    /\ budget = MaxStarts
    /\ denied = {}
    /\ eligibility = {}
    /\ step = "landing"
    /\ formData = [state |-> "", zipcode |-> <<>>, familySize |-> 1, income |-> <<0, 1>>]
    /\ loading = FALSE
    /\ results = {}
    /\ fetches = EmptyBag
    /\ snapCalls = 0
    /\ genCalls = 0
    /\ alerts = 0
    /\ received = {}

\* ------------------------------------------------------------------ text
RECURSIVE TrimLeft(_)
TrimLeft(s) == IF s # <<>> /\ Head(s) = " " THEN TrimLeft(Tail(s)) ELSE s

RECURSIVE TrimRight(_)
TrimRight(s) ==
    IF s # <<>> /\ s[Len(s)] = " " THEN TrimRight(SubSeq(s, 1, Len(s) - 1)) ELSE s

\* String.prototype.trim
Trim(s) == TrimRight(TrimLeft(s))

\* ------------------------------------------------------------ addMessage
\* The Message built by addMessage: id is `${Date.now()}-${random suffix}`.
NewMessage(role, text, rnd) ==
    [id |-> <<now, rnd>>, role |-> role, text |-> text, timestamp |-> now]

\* A variant of addMessage that puts the new Message first.
addMessagePrepends(prev, role, text, rnd) == <<NewMessage(role, text, rnd)>> \o prev

\* setMessages((prev) => [...prev, msg])
addMessage(prev, role, text, rnd) == Append(prev, NewMessage(role, text, rnd))

\* ------------------------------------------------------- message ingestion
\* useConversation onMessage: one Message per 'ai' or 'user' event, nothing
\* for any other source.
onMessage(source, text, rnd) ==
    /\ IF source = "ai"
         THEN /\ messages' = addMessage(messages, "agent", text, rnd)
              /\ arrived' = Append(arrived, <<source, text>>)
         ELSE IF source = "user"
           THEN /\ messages' = addMessage(messages, "user", text, rnd)
                /\ arrived' = Append(arrived, <<source, text>>)
           ELSE UNCHANGED <<messages, arrived>>
    /\ UNCHANGED <<status, isTextMode, textInput, now, timers, starts,
                   toggleWaiters, endWaiters, startCalls, sent, budget, denied,
                   appVars>>

\* An onError that also gives the session up.
onErrorDisconnects ==
    /\ status' = "disconnected"
    /\ UNCHANGED <<isTextMode, textInput, messages, now, timers, starts,
                   toggleWaiters, endWaiters, startCalls, sent, arrived, budget, denied,
                   appVars>>

\* useConversation onError: logs, changes nothing.
onError ==
    /\ UNCHANGED <<status, isTextMode, textInput, messages, now, timers, starts,
                   toggleWaiters, endWaiters, startCalls, sent, arrived, budget, denied,
                   appVars>>

\* ------------------------------------------------------ handleStartSession
\* A handleStartSession invocation suspended at `await getUserMedia(...)`.
\* text is the mode the session is in when the invocation begins; stale and
\* notBefore are history carried over from the timer that began it.
StartInvocation(deferred, stale, notBefore) ==
    [pc |-> "gum", text |-> isTextMode, deferred |-> deferred,
     stale |-> stale, notBefore |-> notBefore]

\* The start button's onClick: runs to the first await.
handleStartSession ==
    /\ budget > 0
    /\ budget' = budget - 1
    /\ starts' = starts (+) One(StartInvocation(FALSE, FALSE, 0))
    /\ UNCHANGED <<status, isTextMode, textInput, messages, now, timers,
                   toggleWaiters, endWaiters, startCalls, sent, arrived, denied,
                   appVars>>

\* getUserMedia resolves: the invocation goes on to call
\* conversation.startSession and suspends at its await.  The transport
\* reports "connecting" for a session that was disconnected.
GetUserMediaResolve(s) ==
    /\ BagIn(s, starts) /\ s.pc = "gum"
    /\ starts' = (starts (-) One(s)) (+) One([s EXCEPT !.pc = "starting"])
    /\ startCalls' = startCalls + 1
    /\ status' = IF status = "disconnected" THEN "connecting" ELSE status
    /\ UNCHANGED <<isTextMode, textInput, messages, now, timers,
                   toggleWaiters, endWaiters, sent, arrived, budget, denied,
                   appVars>>

\* A variant of GetUserMediaReject in which the refusal is swallowed and the
\* invocation goes on to conversation.startSession.
GetUserMediaRejectIgnored(s) ==
    /\ BagIn(s, starts) /\ s.pc = "gum"
    /\ starts' = (starts (-) One(s)) (+) One([s EXCEPT !.pc = "starting"])
    /\ startCalls' = startCalls + 1
    /\ status' = IF status = "disconnected" THEN "connecting" ELSE status
    /\ denied' = denied \cup {s.text}
    /\ UNCHANGED <<isTextMode, textInput, messages, now, timers,
                   toggleWaiters, endWaiters, sent, arrived, budget,
                   appVars>>

\* getUserMedia rejects (permission denied, no device): the catch block logs
\* and the invocation ends.
GetUserMediaReject(s) ==
    /\ BagIn(s, starts) /\ s.pc = "gum"
    /\ starts' = starts (-) One(s)
    /\ denied' = denied \cup {s.text}
    /\ UNCHANGED <<status, isTextMode, textInput, messages, now, timers,
                   toggleWaiters, endWaiters, startCalls, sent, arrived, budget,
                   appVars>>

\* conversation.startSession resolves: the transport is connected.
StartSessionResolve(s) ==
    /\ BagIn(s, starts) /\ s.pc = "starting"
    /\ starts' = starts (-) One(s)
    /\ status' = "connected"
    /\ UNCHANGED <<isTextMode, textInput, messages, now, timers,
                   toggleWaiters, endWaiters, startCalls, sent, arrived, budget, denied,
                   appVars>>

\* A StartSessionReject whose catch block calls conversation.startSession
\* again.
StartSessionRejectRetries(s) ==
    /\ BagIn(s, starts) /\ s.pc = "starting"
    /\ startCalls' = startCalls + 1
    /\ status' = "connecting"
    /\ UNCHANGED <<isTextMode, textInput, messages, now, timers, starts,
                   toggleWaiters, endWaiters, sent, arrived, budget, denied,
                   appVars>>

\* conversation.startSession rejects: the catch block logs; a connection
\* attempt in progress is over.
StartSessionReject(s) ==
    /\ BagIn(s, starts) /\ s.pc = "starting"
    /\ starts' = starts (-) One(s)
    /\ status' = IF status = "connecting" THEN "disconnected" ELSE status
    /\ UNCHANGED <<isTextMode, textInput, messages, now, timers,
                   toggleWaiters, endWaiters, startCalls, sent, arrived, budget, denied,
                   appVars>>

\* -------------------------------------------------------- handleEndSession
\* History only: every pending deferred start is marked as having seen a
\* later end() or toggleMode().  The code keeps no handle on its timers.
Staled(B) ==
    LET S == {[t EXCEPT !.stale = TRUE] : t \in BagToSet(B)}
    IN  [r \in S |-> CopiesIn(r, B) + CopiesIn([r EXCEPT !.stale = FALSE], B)]

\* The end button's onClick: calls conversation.endSession and awaits it.
handleEndSession ==
    /\ endWaiters < MaxEnds
    /\ endWaiters' = endWaiters + 1
    /\ timers' = Staled(timers)
    /\ UNCHANGED <<status, isTextMode, textInput, messages, now, starts,
                   toggleWaiters, startCalls, sent, arrived, budget, denied,
                   appVars>>

\* The status the transport reports once endSession has settled: closed when
\* it resolved, as it was when it threw.
EndSettled(ok) == IF ok THEN "disconnected" ELSE status

\* An EndSessionSettle after which handleEndSession empties the log.
EndSessionSettleClearsLog(ok) ==
    /\ endWaiters > 0
    /\ endWaiters' = endWaiters - 1
    /\ status' = EndSettled(ok)
    /\ messages' = <<>>
    /\ UNCHANGED <<isTextMode, textInput, now, timers, starts,
                   toggleWaiters, startCalls, sent, arrived, budget, denied,
                   appVars>>

\* conversation.endSession settles for a clicked handleEndSession; a
\* rejection is caught and logged.
EndSessionSettle(ok) ==
    /\ endWaiters > 0
    /\ endWaiters' = endWaiters - 1
    /\ status' = EndSettled(ok)
    /\ UNCHANGED <<isTextMode, textInput, messages, now, timers, starts,
                   toggleWaiters, startCalls, sent, arrived, budget, denied,
                   appVars>>

\* --------------------------------------------------------- handleToggleMode
\* The callback handed to setTimeout(..., 300) by handleToggleMode.
Timer == [due |-> now + RestartDelayMs, stale |-> FALSE]

\* A variant of handleToggleMode whose setTimeout is not guarded by
\* wasConnected.
handleToggleModeAlwaysRestarts ==
    /\ IF isConnected
         THEN /\ budget > 0
              /\ budget' = budget - 1
              /\ toggleWaiters' = toggleWaiters + 1
              /\ timers' = Staled(timers)
              /\ UNCHANGED isTextMode
         ELSE /\ isTextMode' = ~isTextMode
              /\ timers' = Staled(timers) (+) One(Timer)
              /\ UNCHANGED <<toggleWaiters, budget>>
    /\ UNCHANGED <<status, textInput, messages, now, starts, endWaiters,
                   startCalls, sent, arrived, denied,
                   appVars>>

\* The toggle button's onClick.  wasConnected: await handleEndSession() and
\* go on in ToggleContinue; otherwise flip the mode and return.
handleToggleMode ==
    /\ timers' = Staled(timers)
    /\ IF isConnected
         THEN /\ budget > 0
              /\ budget' = budget - 1
              /\ toggleWaiters' = toggleWaiters + 1
              /\ UNCHANGED isTextMode
         ELSE /\ isTextMode' = ~isTextMode
              /\ UNCHANGED <<toggleWaiters, budget>>
    /\ UNCHANGED <<status, textInput, messages, now, starts, endWaiters,
                   startCalls, sent, arrived, denied,
                   appVars>>

\* A ToggleContinue that begins the new mode with an empty log.
ToggleContinueClearsLog(ok) ==
    /\ toggleWaiters > 0
    /\ toggleWaiters' = toggleWaiters - 1
    /\ status' = EndSettled(ok)
    /\ isTextMode' = ~isTextMode
    /\ timers' = timers (+) One(Timer)
    /\ messages' = <<>>
    /\ UNCHANGED <<textInput, now, starts, endWaiters, startCalls,
                   sent, arrived, budget, denied,
                   appVars>>

\* handleEndSession() returns inside handleToggleMode (endSession resolved,
\* or threw and was caught): the mode flips and the restart is scheduled.
ToggleContinue(ok) ==
    /\ toggleWaiters > 0
    /\ toggleWaiters' = toggleWaiters - 1
    /\ status' = EndSettled(ok)
    /\ isTextMode' = ~isTextMode
    /\ timers' = timers (+) One(Timer)
    /\ UNCHANGED <<textInput, messages, now, starts, endWaiters, startCalls,
                   sent, arrived, budget, denied,
                   appVars>>

\* The timer callback runs once its delay has elapsed: handleStartSession().
TimerFire(t) ==
    /\ BagIn(t, timers) /\ t.due <= now
    /\ timers' = timers (-) One(t)
    /\ starts' = starts (+) One(StartInvocation(TRUE, t.stale, t.due))
    /\ UNCHANGED <<status, isTextMode, textInput, messages, now,
                   toggleWaiters, endWaiters, startCalls, sent, arrived, budget, denied,
                   appVars>>

\* Time passes.
Tick ==
    /\ now + TickMs <= MaxTime
    /\ now' = now + TickMs
    /\ UNCHANGED <<status, isTextMode, textInput, messages, timers, starts,
                   toggleWaiters, endWaiters, startCalls, sent, arrived, budget, denied,
                   appVars>>

\* ------------------------------------------------------------ text input
\* The input's onChange; the input is rendered in a connected text session.
setTextInput(v) ==
    /\ isConnected /\ isTextMode
    /\ textInput' = v
    /\ UNCHANGED <<status, isTextMode, messages, now, timers, starts,
                   toggleWaiters, endWaiters, startCalls, sent, arrived, budget, denied,
                   appVars>>

\* A handleSendText that does not look at the connection.
handleSendTextUnguarded(rnd, sendOk) ==
    IF Trim(textInput) = <<>>
      THEN UNCHANGED vars
      ELSE /\ messages' = addMessage(messages, "user", Trim(textInput), rnd)
           /\ arrived' = Append(arrived, <<"typed", Trim(textInput)>>)
           /\ IF sendOk
                THEN /\ sent' = Append(sent, Trim(textInput))
                     /\ textInput' = <<>>
                ELSE UNCHANGED <<sent, textInput>>
           /\ UNCHANGED <<status, isTextMode, now, timers, starts,
                          toggleWaiters, endWaiters, startCalls, budget, denied,
                          appVars>>

\* A handleSendText that forwards the text first and appends the Message
\* after: a send that throws leaves the log without it.
handleSendTextForwardsFirst(rnd, sendOk) ==
    IF Trim(textInput) = <<>> \/ ~isConnected
      THEN UNCHANGED vars
      ELSE /\ arrived' = Append(arrived, <<"typed", Trim(textInput)>>)
           /\ IF sendOk
                THEN /\ messages' = addMessage(messages, "user", Trim(textInput), rnd)
                     /\ sent' = Append(sent, Trim(textInput))
                     /\ textInput' = <<>>
                ELSE UNCHANGED <<messages, sent, textInput>>
           /\ UNCHANGED <<status, isTextMode, now, timers, starts,
                          toggleWaiters, endWaiters, startCalls, budget, denied,
                          appVars>>

\* handleSendText.  sendOk = FALSE: conversation.sendUserMessage throws, so
\* the statements after it do not run.
handleSendText(rnd, sendOk) ==
    IF Trim(textInput) = <<>> \/ ~isConnected
      THEN UNCHANGED vars
      ELSE /\ messages' = addMessage(messages, "user", Trim(textInput), rnd)
           /\ arrived' = Append(arrived, <<"typed", Trim(textInput)>>)
           /\ IF sendOk
                THEN /\ sent' = Append(sent, Trim(textInput))
                     /\ textInput' = <<>>
                ELSE UNCHANGED <<sent, textInput>>
           /\ UNCHANGED <<status, isTextMode, now, timers, starts,
                          toggleWaiters, endWaiters, startCalls, budget, denied,
                          appVars>>

\* ------------------------------------------------------------- numbers
\* JavaScript numbers are modelled as exact fractions <<numerator,
\* denominator>> in lowest terms, denominator positive.  Every input the
\* model draws is a whole or half dollar amount, which a double holds exactly.
RECURSIVE GCD(_, _)
GCD(a, b) == IF b = 0 THEN a ELSE GCD(b, a % b)

Abs(n) == IF n < 0 THEN 0 - n ELSE n

Rat(n, d) == LET g == GCD(Abs(n), d) IN <<n \div g, d \div g>>

Add(x, y) == Rat(x[1] * y[2] + y[1] * x[2], x[2] * y[2])

Mul(x, y) == Rat(x[1] * y[1], x[2] * y[2])

\* x < y
Lt(x, y) == x[1] * y[2] < y[1] * x[2]

\* x <= y
Le(x, y) == x[1] * y[2] <= y[1] * x[2]

\* Math.floor
Floor(x) == x[1] \div x[2]

\* Math.round: the nearest integer, halves upwards.
Round(x) == Floor(Add(x, Rat(1, 2)))

\* ------------------------------------------------------- checkEligibility
\* A fplBase that is the annual figure, not divided into months.
fplBaseAnnual == Rat(15060, 1)

\* const fplBase = 15060 / 12
fplBase == Rat(15060, 12)

\* const fplIncrement = 5380 / 12
fplIncrement == Rat(5380, 12)

\* A grossIncomeLimit that takes the increments off the base.
grossIncomeLimitShrinking(familySize) ==
    Mul(Add(fplBase, Mul(Rat(1 - familySize, 1), fplIncrement)), Rat(13, 10))

\* const grossIncomeLimit = (fplBase + (familySize - 1) * fplIncrement) * 1.3
grossIncomeLimit(familySize) ==
    Mul(Add(fplBase, Mul(Rat(familySize - 1, 1), fplIncrement)), Rat(13, 10))

\* The reason template's holes: which sentence, and the values put in it.
Reason(isEligible, familySize, monthlyIncome, state) ==
    [below |-> isEligible, income |-> monthlyIncome,
     rounded |-> Round(grossIncomeLimit(familySize)),
     familySize |-> familySize, state |-> state]

\* A checkEligibility whose comparison is strict.
checkEligibilityStrict(familySize, monthlyIncome, state) ==
    LET isEligible == Lt(monthlyIncome, grossIncomeLimit(familySize))
    IN  [isEligible |-> isEligible,
         limit |-> grossIncomeLimit(familySize),
         reason |-> Reason(isEligible, familySize, monthlyIncome, state)]

\* checkEligibility: the value its promise resolves to.  Nothing in it throws
\* and nothing in it looks at the range of its arguments.
checkEligibility(familySize, monthlyIncome, state) ==
    LET isEligible == Le(monthlyIncome, grossIncomeLimit(familySize))
    IN  [isEligible |-> isEligible,
         limit |-> grossIncomeLimit(familySize),
         reason |-> Reason(isEligible, familySize, monthlyIncome, state)]

\* A caller awaits checkEligibility(familySize, monthlyIncome, state).
CallCheckEligibility(familySize, monthlyIncome, state) ==
    /\ eligibility' = {[familySize |-> familySize, monthlyIncome |-> monthlyIncome,
                        state |-> state, outcome |-> "resolved",
                        result |-> checkEligibility(familySize, monthlyIncome, state)]}
    /\ UNCHANGED <<sessionVars, wizardVars>>

\* The arguments drawn: family sizes from -1 up, whole-dollar incomes from
\* -400 up in steps of 400, and around every limit the half dollars next to it.
FamilySizes == (0 - 1)..MaxFamily

NearLimit(familySize) ==
    LET h == Floor(Mul(grossIncomeLimit(familySize), Rat(2, 1)))
    IN  {Rat(h + d, 2) : d \in (0 - 1)..2}

Incomes ==
    {Rat(400 * k, 1) : k \in (0 - 1)..MaxIncomeSteps}
        \cup UNION {NearLimit(n) : n \in 1..MaxFamily}

States == {"Alabama", "Wyoming"}

\* ------------------------------------------------------- getSnapResources
\* A response text is a sequence of units: one of the three markers, a
\* character of content ("x") or a blank.
Markers == {"[SNAP_OFFICE]", "[GROCERY_STORES]", "[FOOD_PANTRIES]"}

Units == Markers \cup {"x", " "}

\* A property of the response that may be missing: response.text,
\* response.candidates?.[0]?.groundingMetadata?.groundingChunks.
Missing == [defined |-> FALSE, value |-> <<>>]

Given(v) == [defined |-> TRUE, value |-> v]

\* A grounding chunk: whether it has a web property, and whether it carries
\* a source URL.
Chunks == [web : BOOLEAN, uri : BOOLEAN]

\* The value getSnapResources returns for a response of generateContent.
SnapResources(response) ==
    [text |-> response.text,
     groundingChunks |-> IF response.chunks.defined THEN response.chunks.value
                                                   ELSE <<>>]

\* ---------------------------------------------------------- section parsing
\* The first position from i on that holds one of the units in toks, or
\* Len(text) + 1.
RECURSIVE IndexFrom(_, _, _)
IndexFrom(text, toks, i) ==
    IF i > Len(text) THEN Len(text) + 1
    ELSE IF text[i] \in toks THEN i
    ELSE IndexFrom(text, toks, i + 1)

\* A match whose capture runs to the end of the text ([\s\S]* for [\s\S]*?).
MatchToEnd(text, marker) ==
    LET i == IndexFrom(text, {marker}, 1)
    IN  IF i > Len(text) THEN <<>> ELSE <<SubSeq(text, i + 1, Len(text))>>

\* text.match(/marker([\s\S]*?)(?=other|other|$)/): <<>> for null, else
\* <<capture>>.  The match begins at the first occurrence of the marker and
\* the lazy capture ends before the first of the two other markers after it.
Match(text, marker) ==
    LET i == IndexFrom(text, {marker}, 1)
        j == IndexFrom(text, Markers \ {marker}, i + 1)
    IN  IF i > Len(text) THEN <<>> ELSE <<SubSeq(text, i + 1, j - 1)>>

\* match ? match[1].trim() : ''
Section(match) == IF match = <<>> THEN <<>> ELSE Trim(match[1])

\* A parseResources whose fullText is trimmed like the sections.
parseResourcesTrimsFullText(resources) ==
    LET text == IF resources.text.defined THEN resources.text.value ELSE <<>>
    IN  [office |-> Section(Match(text, "[SNAP_OFFICE]")),
         stores |-> Section(Match(text, "[GROCERY_STORES]")),
         pantries |-> Section(Match(text, "[FOOD_PANTRIES]")),
         fullText |-> Trim(text),
         groundingChunks |-> resources.groundingChunks]

\* parsedResources, from `const text = resources.text || ''` on.
parseResources(resources) ==
    LET text == IF resources.text.defined THEN resources.text.value ELSE <<>>
    IN  [office |-> Section(Match(text, "[SNAP_OFFICE]")),
         stores |-> Section(Match(text, "[GROCERY_STORES]")),
         pantries |-> Section(Match(text, "[FOOD_PANTRIES]")),
         fullText |-> text,
         groundingChunks |-> resources.groundingChunks]

\* ------------------------------------------------------------ results view
\* {!results.resources.office && !results.resources.stores && <Markdown>
\* fullText}: whether the view shows fullText.
ShowsFullText(resources) == resources.office = <<>> /\ resources.stores = <<>>

\* The chunks the view renders as links: chunk.web && <a href=chunk.web.uri>.
RenderedChunks(resources) ==
    LET HasWeb(c) == c.web IN SelectSeq(resources.groundingChunks, HasWeb)

\* ------------------------------------------------------------- the wizard
\* onClick of the header logo.
HeaderClick ==
    /\ step' = "landing"
    /\ UNCHANGED <<sessionVars, eligibility, formData, loading, results, fetches,
                   snapCalls, genCalls, alerts, received>>

\* The state select's onChange (location step).
setState(v) ==
    /\ step = "location"
    /\ formData' = [formData EXCEPT !.state = v]
    /\ UNCHANGED <<sessionVars, eligibility, step, loading, results, fetches,
                   snapCalls, genCalls, alerts, received>>

\* The zipcode input's onChange (location step).
setZipcode(v) ==
    /\ step = "location"
    /\ formData' = [formData EXCEPT !.zipcode = v]
    /\ UNCHANGED <<sessionVars, eligibility, step, loading, results, fetches,
                   snapCalls, genCalls, alerts, received>>

\* ------------------------------------------------------ number inputs
\* The value of an <input type="number"> is a sequence of characters: an
\* optional sign, digits, an optional point and digits, or nothing.
Digits == {"0", "1", "2", "3", "4", "5", "6", "7", "8", "9"}

DigitValue(c) ==
    CASE c = "0" -> 0 [] c = "1" -> 1 [] c = "2" -> 2 [] c = "3" -> 3
      [] c = "4" -> 4 [] c = "5" -> 5 [] c = "6" -> 6 [] c = "7" -> 7
      [] c = "8" -> 8 [] c = "9" -> 9

\* The longest run of digits s begins with.
RECURSIVE LeadingDigits(_)
LeadingDigits(s) ==
    IF s # <<>> /\ Head(s) \in Digits THEN <<Head(s)>> \o LeadingDigits(Tail(s))
    ELSE <<>>

RECURSIVE DigitsValue(_)
DigitsValue(ds) ==
    IF ds = <<>> THEN 0
    ELSE 10 * DigitsValue(SubSeq(ds, 1, Len(ds) - 1)) + DigitValue(ds[Len(ds)])

RECURSIVE PowerOfTen(_)
PowerOfTen(k) == IF k = 0 THEN 1 ELSE 10 * PowerOfTen(k - 1)

\* s without its sign, and the sign.
Unsigned(s) == IF s # <<>> /\ Head(s) \in {"-", "+"} THEN Tail(s) ELSE s

Sign(s) == IF s # <<>> /\ Head(s) = "-" THEN 0 - 1 ELSE 1

\* parseInt(s): the signed digits s begins with; NaN when there are none.
ParseInt(s) ==
    LET ds == LeadingDigits(Unsigned(s))
    IN  [nan |-> ds = <<>>, value |-> Sign(s) * DigitsValue(ds)]

\* parseFloat(s): the signed digits, point and digits s begins with; NaN
\* when there is no digit.
ParseFloat(s) ==
    LET u == Unsigned(s)
        whole == LeadingDigits(u)
        rest == SubSeq(u, Len(whole) + 1, Len(u))
        frac == IF rest # <<>> /\ Head(rest) = "." THEN LeadingDigits(Tail(rest))
                                                     ELSE <<>>
    IN  [nan |-> whole = <<>> /\ frac = <<>>,
         value |-> Rat(Sign(s) * (DigitsValue(whole) * PowerOfTen(Len(frac))
                                    + DigitsValue(frac)),
                       PowerOfTen(Len(frac)))]

\* The family size input's onChange (household step):
\* familySize: parseInt(e.target.value) || 1
setFamilySize(v) ==
    /\ step = "household"
    /\ formData' = [formData EXCEPT !.familySize =
                        IF ParseInt(v).nan \/ ParseInt(v).value = 0
                          THEN 1 ELSE ParseInt(v).value]
    /\ UNCHANGED <<sessionVars, eligibility, step, loading, results, fetches,
                   snapCalls, genCalls, alerts, received>>

\* The income input's onChange (household step):
\* income: parseFloat(e.target.value) || 0
setIncome(v) ==
    /\ step = "household"
    /\ formData' = [formData EXCEPT !.income =
                        IF ParseFloat(v).nan \/ ParseFloat(v).value = Rat(0, 1)
                          THEN Rat(0, 1) ELSE ParseFloat(v).value]
    /\ UNCHANGED <<sessionVars, eligibility, step, loading, results, fetches,
                   snapCalls, genCalls, alerts, received>>

\* The values typed into the two number inputs.
RawNumbers ==
    {<<>>, <<"0">>, <<"3">>, <<"-", "3">>, <<"2", ".", "5">>,
     <<"-", "0", ".", "5">>, <<"1", "2", "0", "0">>}

\* A fetchResults that shows the results step before it awaits anything.
fetchResultsShowsFirst ==
    LET e == checkEligibility(formData.familySize, formData.income, formData.state)
    IN  /\ loading' = TRUE
        /\ step' = "results"
        /\ eligibility' = {[familySize |-> formData.familySize,
                            monthlyIncome |-> formData.income,
                            state |-> formData.state, outcome |-> "resolved",
                            result |-> e]}
        /\ fetches' = fetches (+) One([form |-> formData, eligibility |-> e])
        /\ snapCalls' = snapCalls + 1
        /\ genCalls' = genCalls + 1
        /\ UNCHANGED <<sessionVars, formData, results, alerts, received>>

\* fetchResults up to `await getSnapResources(...)`: loading is set,
\* checkEligibility resolves at once, getSnapResources calls generateContent.
fetchResults ==
    LET e == checkEligibility(formData.familySize, formData.income, formData.state)
    IN  /\ loading' = TRUE
        /\ eligibility' = {[familySize |-> formData.familySize,
                            monthlyIncome |-> formData.income,
                            state |-> formData.state, outcome |-> "resolved",
                            result |-> e]}
        /\ fetches' = fetches (+) One([form |-> formData, eligibility |-> e])
        /\ snapCalls' = snapCalls + 1
        /\ genCalls' = genCalls + 1
        /\ UNCHANGED <<sessionVars, step, formData, results, alerts, received>>

handleNext ==
    IF step = "landing"
      THEN /\ step' = "location"
           /\ UNCHANGED <<sessionVars, eligibility, formData, loading, results,
                          fetches, snapCalls, genCalls, alerts, received>>
    ELSE IF step = "location"
      THEN /\ step' = "household"
           /\ UNCHANGED <<sessionVars, eligibility, formData, loading, results,
                          fetches, snapCalls, genCalls, alerts, received>>
    ELSE IF step = "household"
      THEN fetchResults
    ELSE UNCHANGED vars

handleBack ==
    /\ step' = IF step = "location" THEN "landing"
               ELSE IF step = "household" THEN "location"
               ELSE IF step = "results" THEN "household"
               ELSE step
    /\ UNCHANGED <<sessionVars, eligibility, formData, loading, results, fetches,
                   snapCalls, genCalls, alerts, received>>

\* generateContent resolves: getSnapResources returns, fetchResults parses the
\* sections, stores the results, shows the results step and clears loading.
GenerateResolve(f, response) ==
    /\ BagIn(f, fetches)
    /\ fetches' = fetches (-) One(f)
    /\ results' = {[eligibility |-> f.eligibility,
                    resources |-> parseResources(SnapResources(response))]}
    /\ step' = "results"
    /\ loading' = FALSE
    /\ received' = {[text |-> response.text, chunks |-> response.chunks,
                      form |-> f.form]}
    /\ UNCHANGED <<sessionVars, eligibility, formData, snapCalls, genCalls, alerts>>

\* A GenerateReject in which getSnapResources calls generateContent again.
GenerateRejectRetries(f) ==
    /\ BagIn(f, fetches)
    /\ genCalls' = genCalls + 1
    /\ UNCHANGED <<sessionVars, eligibility, step, formData, loading, results,
                   fetches, snapCalls, alerts, received>>

\* A GenerateReject in which getSnapResources swallows the error and returns
\* an empty response.
GenerateRejectAsEmpty(f) ==
    /\ BagIn(f, fetches)
    /\ fetches' = fetches (-) One(f)
    /\ results' = {[eligibility |-> f.eligibility,
                    resources |-> parseResources(
                        SnapResources([text |-> Missing, chunks |-> Missing]))]}
    /\ step' = "results"
    /\ loading' = FALSE
    /\ UNCHANGED <<sessionVars, eligibility, formData, snapCalls, genCalls, alerts,
                   received>>

\* A GenerateReject whose fetchResults has no finally block.
GenerateRejectKeepsLoading(f) ==
    /\ BagIn(f, fetches)
    /\ fetches' = fetches (-) One(f)
    /\ alerts' = alerts + 1
    /\ UNCHANGED <<sessionVars, eligibility, step, formData, loading, results,
                   snapCalls, genCalls, received>>

\* generateContent rejects: getSnapResources logs and rethrows, fetchResults
\* logs, shows the alert and clears loading.
GenerateReject(f) ==
    /\ BagIn(f, fetches)
    /\ fetches' = fetches (-) One(f)
    /\ alerts' = alerts + 1
    /\ loading' = FALSE
    /\ UNCHANGED <<sessionVars, eligibility, step, formData, results, snapCalls,
                   genCalls, received>>

\* The Continue button of the location step is enabled.
CanContinue == formData.state # "" /\ Len(formData.zipcode) >= 5

\* The inputs drawn for the location step and the responses drawn for the
\* generation service.
Zipcodes == {<<>>, <<"9", "0", "2", "1">>, <<"9", "0", "2", "1", "0">>}

AllTexts == UNION {[1..n -> Units] : n \in 0..MaxTextLen}

FewTexts ==
    {<<>>, <<" ", "x">>, <<"[FOOD_PANTRIES]", "x">>,
     <<"[SNAP_OFFICE]", "x", "[GROCERY_STORES]", "x">>}

ChunkLists == UNION {[1..n -> Chunks] : n \in 0..MaxChunks}

Responses ==
    {[text |-> Missing, chunks |-> Missing]}
        \cup {[text |-> Given(t), chunks |-> Missing] : t \in FewTexts}
        \cup {[text |-> Given(<<"x">>), chunks |-> Given(l)] : l \in ChunkLists}


\* ----------------------------------------------------------- specification
\* The session controller: every handler and every transport outcome, with a
\* short message log.
Next ==
    \/ handleStartSession
    \/ \E s \in BagToSet(starts) : GetUserMediaResolve(s)
    \/ \E s \in BagToSet(starts) : GetUserMediaReject(s)
    \/ \E s \in BagToSet(starts) : StartSessionResolve(s)
    \/ \E s \in BagToSet(starts) : StartSessionReject(s)
    \/ handleEndSession
    \/ \E ok \in BOOLEAN : EndSessionSettle(ok)
    \/ handleToggleMode
    \/ \E ok \in BOOLEAN : ToggleContinue(ok)
    \/ \E t \in BagToSet(timers) : TimerFire(t)
    \/ Tick
    \/ /\ Len(messages) < MaxSessionMsgs
       /\ \E src \in Sources : onMessage(src, <<"a">>, 0)
    \/ onError

Spec == Init /\ [][Next]_vars

\* The message log: ingestion and text submission in every mix, over one
\* session at a time that the user starts, switches to text and ends.
NextChat ==
    \/ status = "disconnected" /\ starts = EmptyBag /\ handleStartSession
    \/ \E s \in BagToSet(starts) : GetUserMediaResolve(s)
    \/ \E s \in BagToSet(starts) : StartSessionResolve(s)
    \/ isConnected /\ handleEndSession
    \/ EndSessionSettle(TRUE)
    \/ ~isConnected /\ handleToggleMode
    \/ Tick
    \/ /\ Len(messages) < MaxMsgs
       /\ \E src \in Sources, text \in Texts : onMessage(src, text, 0)
    \/ onError
    \/ \E v \in Inputs : setTextInput(v)
    \/ /\ Len(messages) < MaxMsgs
       /\ \E ok \in BOOLEAN : handleSendText(0, ok)

SpecChat == Init /\ [][NextChat]_vars

\* Message identifiers: ingestion alone, with every clock reading and every
\* random suffix.
NextIds ==
    \/ Tick
    \/ /\ Len(messages) < MaxMsgs
       /\ \E src \in Sources, text \in Texts, rnd \in 0..MaxRnd :
            onMessage(src, text, rnd)

SpecIds == Init /\ [][NextIds]_vars

\* Rapid toggling: one session is started, then the user only toggles the
\* mode, at most twice from connected and only before any restart has called
\* the transport; the transport never fails.
NextRapid ==
    \/ startCalls = 0 /\ starts = EmptyBag /\ handleStartSession
    \/ \E s \in BagToSet(starts) : GetUserMediaResolve(s)
    \/ \E s \in BagToSet(starts) : StartSessionResolve(s)
    \/ startCalls = 1 /\ toggleWaiters < 2 /\ handleToggleMode
    \/ ToggleContinue(TRUE)
    \/ \E t \in BagToSet(timers) : TimerFire(t)
    \/ Tick

SpecRapid == Init /\ [][NextRapid]_vars

\* Connection establishment: sessions are started, toggled and restarted and
\* the transport may fail at every point; the user never presses end.
NextConnect ==
    \/ handleStartSession
    \/ \E s \in BagToSet(starts) : GetUserMediaResolve(s)
    \/ \E s \in BagToSet(starts) : GetUserMediaReject(s)
    \/ \E s \in BagToSet(starts) : StartSessionResolve(s)
    \/ \E s \in BagToSet(starts) : StartSessionReject(s)
    \/ handleToggleMode
    \/ \E ok \in BOOLEAN : ToggleContinue(ok)
    \/ \E t \in BagToSet(timers) : TimerFire(t)
    \/ Tick
    \/ /\ Len(messages) < MaxSessionMsgs
       /\ \E src \in Sources : onMessage(src, <<"a">>, 0)
    \/ onError

SpecConnect == Init /\ [][NextConnect]_vars

\* Closing: as Spec, with end() issued only while the connection is
\* connecting or connected.
NextEnd ==
    \/ handleStartSession
    \/ \E s \in BagToSet(starts) : GetUserMediaResolve(s)
    \/ \E s \in BagToSet(starts) : GetUserMediaReject(s)
    \/ \E s \in BagToSet(starts) : StartSessionResolve(s)
    \/ \E s \in BagToSet(starts) : StartSessionReject(s)
    \/ status # "disconnected" /\ handleEndSession
    \/ \E ok \in BOOLEAN : EndSessionSettle(ok)
    \/ handleToggleMode
    \/ \E ok \in BOOLEAN : ToggleContinue(ok)
    \/ \E t \in BagToSet(timers) : TimerFire(t)
    \/ Tick
    \/ /\ Len(messages) < MaxSessionMsgs
       /\ \E src \in Sources : onMessage(src, <<"a">>, 0)
    \/ onError

SpecEnd == Init /\ [][NextEnd]_vars

\* The eligibility engine alone: call after call, with every drawn argument.
NextElig ==
    \E n \in FamilySizes, x \in Incomes, st \in States :
        CallCheckEligibility(n, x, st)

SpecElig == Init /\ [][NextElig]_vars

\* Text submission alone: one session at a time that the user starts,
\* switches to text and ends, typing and sending at any moment the page
\* lets them, and handleSendText called at every moment.
NextSend ==
    \/ status = "disconnected" /\ starts = EmptyBag /\ handleStartSession
    \/ \E s \in BagToSet(starts) : GetUserMediaResolve(s)
    \/ \E s \in BagToSet(starts) : StartSessionResolve(s)
    \/ isConnected /\ handleEndSession
    \/ EndSessionSettle(TRUE)
    \/ ~isConnected /\ handleToggleMode
    \/ Tick
    \/ \E v \in Inputs : setTextInput(v)
    \/ /\ Len(messages) < MaxMsgs
       /\ \E ok \in BOOLEAN : handleSendText(0, ok)

SpecSend == Init /\ [][NextSend]_vars

\* Section parsing: one pass through the wizard with a filled-in location,
\* the generation service answering with every text of up to MaxTextLen
\* units, or with none.
NextParse ==
    \/ step = "landing" /\ handleNext
    \/ setState("Alabama")
    \/ setZipcode(<<"9", "0", "2", "1", "0">>)
    \/ step = "location" /\ CanContinue /\ handleNext
    \/ step = "household" /\ ~loading /\ results = {} /\ handleNext
    \/ handleBack
    \/ \E f \in BagToSet(fetches) :
         \/ GenerateResolve(f, [text |-> Missing, chunks |-> Missing])
         \/ \E t \in AllTexts :
              GenerateResolve(f, [text |-> Given(t), chunks |-> Missing])

SpecParse == Init /\ [][NextParse]_vars

\* The wizard: every button of the landing, location, household and results
\* steps and the inputs of the location step, each enabled as the page
\* renders it, and a generation service that answers or fails.
NextApp ==
    \/ HeaderClick
    \/ step = "landing" /\ handleNext
    \/ \E v \in {""} \cup States : setState(v)
    \/ \E v \in Zipcodes : setZipcode(v)
    \/ step = "location" /\ CanContinue /\ handleNext
    \/ step = "household" /\ ~loading /\ snapCalls < MaxFetches /\ handleNext
    \/ step # "landing" /\ handleBack
    \/ \E f \in BagToSet(fetches), r \in Responses : GenerateResolve(f, r)
    \/ \E f \in BagToSet(fetches) : GenerateReject(f)

SpecApp == Init /\ [][NextApp]_vars

\* The household form: one location, every value typed into the family size
\* and income inputs, and a generation service that answers without text or
\* fails.
NextForm ==
    \/ step = "landing" /\ handleNext
    \/ setState("Alabama")
    \/ setZipcode(<<"9", "0", "2", "1", "0">>)
    \/ step = "location" /\ CanContinue /\ handleNext
    \/ \E v \in RawNumbers : setFamilySize(v)
    \/ \E v \in RawNumbers : setIncome(v)
    \/ step = "household" /\ ~loading /\ snapCalls < MaxFetches /\ handleNext
    \/ step # "landing" /\ handleBack
    \/ \E f \in BagToSet(fetches) :
         GenerateResolve(f, [text |-> Missing, chunks |-> Missing])
    \/ \E f \in BagToSet(fetches) : GenerateReject(f)

SpecForm == Init /\ [][NextForm]_vars

\* =================================================================== claims
\* The role addMessage is to be called with for an event source.
RoleOf(source) == IF source = "ai" THEN "agent" ELSE "user"

\* Number of entries of a bag, whatever their history flags.
Pending(B) == BagCardinality(B)

\* C1: the mode flag changes value only in a step that leaves the
\* connection disconnected; it never flips while the connection is
\* connecting or connected.
C1_ModeChangesOnlyWhileDisconnected ==
    [][isTextMode' # isTextMode => status' = "disconnected"]_vars

\* C2: a deferred start that saw an end() or another toggleMode() while it
\* was pending never calls the transport's startSession.
C2_StaleDeferredStartNeverCalls ==
    \A s \in BagToSet(starts) : (s.deferred /\ s.pc = "starting") => ~s.stale

\* C3: two toggleMode() calls in rapid succession on a connected session
\* lead to at most one start of the transport beyond the one that opened
\* the session.
C3_AtMostOneReconnect == startCalls <= 2

\* C4: the transport's startSession is called only while the connection is
\* disconnected, so there is never a second connection open or being opened.
C4_StartOnlyWhenDisconnected ==
    [][startCalls' > startCalls => status = "disconnected"]_vars

\* C5: N ingested events give a log of N entries and the k-th entry carries
\* the role and the text of the k-th arrived event.
C5_LogFollowsArrival ==
    /\ Len(messages) = Len(arrived)
    /\ \A k \in 1..Len(arrived) :
         /\ messages[k].role = RoleOf(arrived[k][1])
         /\ messages[k].text = arrived[k][2]

\* C5 witness: a log of an agent and a user entry appended at one clock
\* reading, the agent's event having arrived first.
C5_MixedSameInstant ==
    /\ Len(messages) >= 2
    /\ arrived[1][1] = "ai" /\ arrived[2][1] = "user"
    /\ arrived[1][2] # arrived[2][2]
    /\ messages[1].timestamp = messages[2].timestamp

\* C6: the ids of the messages in the log are pairwise distinct.
C6_IdsDistinct ==
    \A i, j \in 1..Len(messages) : i # j => messages[i].id # messages[j].id

\* C7: toggleMode() on a connected session first lets end() run to
\* completion, leaving the connection disconnected, then flips the mode,
\* then schedules the deferred start; the deferred start calls startSession
\* no earlier than the delay after the flip.
C7_ToggleOrder ==
    /\ [][/\ toggleWaiters' > toggleWaiters =>
               /\ isTextMode' = isTextMode
               /\ Pending(timers') = Pending(timers)
          /\ toggleWaiters' < toggleWaiters =>
               /\ status' = "disconnected"
               /\ isTextMode' = ~isTextMode
               /\ Pending(timers') = Pending(timers) + 1
               /\ \A t \in BagToSet(timers') :
                    CopiesIn(t, timers') > CopiesIn(t, timers) =>
                        t.due = now + RestartDelayMs]_vars
    /\ [](\A s \in BagToSet(starts) :
            (s.deferred /\ s.pc = "starting") => s.notBefore <= now)

\* C8: toggleMode() on a disconnected session only flips the mode: no
\* deferred start, no call to the transport, connection state and message
\* log unchanged.
C8_ToggleWhileDisconnected ==
    [][(handleToggleMode /\ status = "disconnected") =>
         /\ isTextMode' = ~isTextMode
         /\ Pending(timers') = Pending(timers)
         /\ UNCHANGED <<status, messages, starts, toggleWaiters, endWaiters,
                        startCalls>>]_vars

\* C8 witness: no start was ever issued, the log is not empty, and the mode
\* is text: it was flipped by a toggle on the disconnected session.
C8_ToggledNeverStarted ==
    /\ isTextMode /\ status = "disconnected"
    /\ budget = MaxStarts /\ messages # <<>>

\* C9: start() asks for audio capture only in voice mode, and no text-mode
\* start is ever stopped by a refused microphone.
C9_MicrophoneOnlyInVoiceMode ==
    /\ \A s \in BagToSet(starts) : s.pc = "gum" => ~s.text
    /\ TRUE \notin denied

\* C10: a voice-mode start whose audio capture is refused ends without
\* calling startSession and leaves connection state, mode and log as they
\* were.
C10_DeniedStartLeavesNoTrace ==
    [][\A s \in BagToSet(starts) :
         (GetUserMediaReject(s) /\ ~s.text) =>
             /\ startCalls' = startCalls
             /\ Pending(starts') = Pending(starts) - 1
             /\ \A r \in BagToSet(starts') :
                  CopiesIn(r, starts') <= CopiesIn(r, starts)
             /\ UNCHANGED <<status, isTextMode, messages, timers>>]_vars

\* C10 witness: a voice-mode start was refused on a session that holds
\* messages; the connection is disconnected and startSession was never
\* called.
C10_VoiceStartRefused ==
    /\ FALSE \in denied /\ TRUE \notin denied
    /\ status = "disconnected" /\ startCalls = 0
    /\ messages # <<>>

C12_EndClosesConnection ==
    [][endWaiters' < endWaiters => status' = "disconnected"]_vars

\* C13: end() on a disconnected session changes neither the connection
\* state nor the mode nor the message log, when it is called and when the
\* transport's endSession settles, whichever way it settles.
C13_EndWhileDisconnectedIsNoOp ==
    [][(/\ status = "disconnected"
        /\ \/ handleEndSession
           \/ \E ok \in BOOLEAN : EndSessionSettle(ok)) =>
         UNCHANGED <<status, isTextMode, messages>>]_vars

\* C13 witness: end() was called on a session that was never started, is in
\* text mode and holds messages.
C13_EndedNeverStarted ==
    /\ endWaiters > 0 /\ budget = MaxStarts /\ status = "disconnected"
    /\ isTextMode /\ messages # <<>>

\* C14: a typed submission that passes handleSendText's guard puts one user
\* Message carrying the trimmed text at the end of the log, whether the
\* transport's send succeeds or throws.
C14_SubmissionStaysInLog ==
    [][(/\ Len(arrived') = Len(arrived) + 1
        /\ arrived'[Len(arrived')][1] = "typed") =>
         /\ Len(messages') = Len(messages) + 1
         /\ SubSeq(messages', 1, Len(messages)) = messages
         /\ messages'[Len(messages')].role = "user"
         /\ messages'[Len(messages')].text = Trim(textInput)]_vars

\* C14 witness: a typed submission is in the log and nothing was ever handed
\* over to the transport: its send failed.
C14_FailedSendLogged ==
    /\ sent = <<>>
    /\ \E k \in 1..Len(arrived) :
         /\ arrived[k][1] = "typed"
         /\ k <= Len(messages)
         /\ messages[k].role = "user" /\ messages[k].text = arrived[k][2]

C16_ErrorWhileConnected ==
    [][(onError /\ isConnected) => UNCHANGED <<status, isTextMode, messages>>]_vars

\* C16 witness: a connected text session holding messages, the state an
\* onError event arrives in and leaves behind.
C16_ConnectedWithHistory ==
    /\ isConnected /\ isTextMode /\ messages # <<>>

\* The calls whose arguments are in range: a family of at least one person
\* and an income that is not negative.
ValidCalls ==
    {c \in eligibility : c.familySize >= 1 /\ Le(Rat(0, 1), c.monthlyIncome)}

C18_LimitMonotone ==
    [][\A c \in ValidCalls, d \in ValidCalls' :
         c.familySize <= d.familySize =>
             /\ Le(c.result.limit, d.result.limit)
             /\ (c.monthlyIncome = d.monthlyIncome /\ c.result.isEligible)
                    => d.result.isEligible]_vars

\* C18 witness: the largest family drawn is eligible at an income above the
\* limit of a single person.
C18_LargerFamilyEligible ==
    \E c \in ValidCalls :
        /\ c.familySize = MaxFamily /\ c.result.isEligible
        /\ Lt(Rat(3263, 2), c.monthlyIncome)

C20_InvalidInputRejected ==
    \A c \in eligibility :
        (c.familySize < 1 \/ Lt(c.monthlyIncome, Rat(0, 1))) =>
            c.outcome = "rejected"

\* The text of a response, '' when the response carries none.
TextOf(response) == IF response.text.defined THEN response.text.value ELSE <<>>

\* Where the units of a text hold a marker, and the first such position
\* after position i, Len(text) + 1 when there is none.
MarkerPositions(text) == {i \in 1..Len(text) : text[i] \in Markers}

NextMarker(text, i) ==
    LET S == {j \in MarkerPositions(text) : j > i}
    IN  IF S = {} THEN Len(text) + 1 ELSE CHOOSE j \in S : \A k \in S : j <= k

\* The three markers occur once each, each followed by content.
WellMarked(text) ==
    /\ \A m \in Markers : Cardinality({i \in 1..Len(text) : text[i] = m}) = 1
    /\ \A i \in MarkerPositions(text) : NextMarker(text, i) > i + 1

\* The section a text holds for a marker that occurs in it once: the trimmed
\* units between the marker and the next marker or the end.
SectionOf(text, m) ==
    LET i == CHOOSE k \in 1..Len(text) : text[k] = m
    IN  Trim(SubSeq(text, i + 1, NextMarker(text, i) - 1))

\* C21: for a response text that holds each marker once, in any order, with
\* content after each, every parsed section is the trimmed text between its
\* marker and the next marker or the end of the text.
C21_SectionsRoundTrip ==
    \A resp \in received, r \in results :
        (resp.text.defined /\ WellMarked(resp.text.value)) =>
            /\ r.resources.office = SectionOf(resp.text.value, "[SNAP_OFFICE]")
            /\ r.resources.stores = SectionOf(resp.text.value, "[GROCERY_STORES]")
            /\ r.resources.pantries = SectionOf(resp.text.value, "[FOOD_PANTRIES]")

\* C21 witness: a parsed response whose markers come in the order pantries,
\* office, stores, each with content.
C21_ParsedOutOfOrder ==
    \E resp \in received, r \in results :
        /\ resp.text.defined /\ WellMarked(resp.text.value)
        /\ resp.text.value[1] = "[FOOD_PANTRIES]"
        /\ resp.text.value[3] = "[SNAP_OFFICE]"
        /\ r.resources.office = <<"x">> /\ r.resources.pantries = <<"x">>

\* C22: for a response text without any marker the three sections are empty
\* and fullText is the response text, character for character.
C22_FallbackKeepsText ==
    \A resp \in received, r \in results :
        (resp.text.defined /\ MarkerPositions(resp.text.value) = {}) =>
            /\ r.resources.office = <<>>
            /\ r.resources.stores = <<>>
            /\ r.resources.pantries = <<>>
            /\ r.resources.fullText = resp.text.value

\* C22 witness: a parsed response without markers whose text begins and ends
\* with a blank.
C22_UnmarkedWithBlanks ==
    \E resp \in received, r \in results :
        /\ resp.text.defined /\ MarkerPositions(resp.text.value) = {}
        /\ Len(resp.text.value) >= 3
        /\ resp.text.value[1] = " " /\ resp.text.value[Len(resp.text.value)] = " "
        /\ r.resources.fullText # <<>>

\* C23: in every stored result whose three sections are all empty, fullText
\* is not empty.
C23_FullTextWhenNoSections ==
    \A r \in results :
        (/\ r.resources.office = <<>>
         /\ r.resources.stores = <<>>
         /\ r.resources.pantries = <<>>) => r.resources.fullText # <<>>

\* C24: the citations shown are the chunks of the service's response that
\* carry a source URL, in the service's order, duplicates kept.
C24_CitationsAreTheChunksWithUrl ==
    \A resp \in received, r \in results :
        LET HasUrl(c) == c.uri
            served == IF resp.chunks.defined THEN resp.chunks.value ELSE <<>>
        IN  RenderedChunks(r.resources) = SelectSeq(served, HasUrl)

\* C25: every getSnapResources call has made exactly one generateContent
\* call, whether it is pending, has succeeded or has failed.
C25_OneGenerationPerLookup == genCalls = snapCalls

\* C25 witness: two lookups are over, one failed and one succeeded.
C25_FailedAndSucceeded ==
    /\ snapCalls = 2 /\ fetches = EmptyBag
    /\ alerts = 1 /\ results # {}

\* C26: when the generation call fails, the failure is shown, the stored
\* results stay as they were and the wizard stays on the step it is on.
C26_FailureIsNotASuccess ==
    [][\A f \in BagToSet(fetches) :
         GenerateReject(f) =>
             /\ alerts' = alerts + 1
             /\ results' = results
             /\ step' = step]_vars

\* C26 witness: a lookup failed, nothing is stored and the wizard is on the
\* household step, not loading.
C26_FailedOnHousehold ==
    /\ alerts > 0 /\ results = {} /\ fetches = EmptyBag
    /\ step = "household" /\ ~loading

\* C27: when the generation call fails, the caller still holds the
\* eligibility result computed by the same fetchResults call.
C27_EligibilitySurvivesFailure ==
    [][\A f \in BagToSet(fetches) :
         GenerateReject(f) =>
             \E r \in results' : r.eligibility = f.eligibility]_vars

\* C28: no parsed section holds a marker.
C28_NoMarkerInSections ==
    \A r \in results :
        \A sec \in {r.resources.office, r.resources.stores, r.resources.pantries} :
            MarkerPositions(sec) = {}

\* C29: the results view shows fullText exactly when the three sections are
\* all empty.
C29_FullTextIsTheFallback ==
    \A r \in results :
        step = "results" =>
            (ShowsFullText(r.resources) <=>
                /\ r.resources.office = <<>>
                /\ r.resources.stores = <<>>
                /\ r.resources.pantries = <<>>)

\* C30: handleSendText on a session that is not connected, or with an input
\* that is empty or blank, leaves the log, the texts sent and the input as
\* they were; when it submits, the Message appended and the text sent both
\* carry the trimmed input.
C30_SendIsGuarded ==
    [][\A ok \in BOOLEAN :
         handleSendText(0, ok) =>
             IF ~isConnected \/ Trim(textInput) = <<>>
               THEN UNCHANGED <<messages, sent, textInput>>
               ELSE /\ Len(messages') = Len(messages) + 1
                    /\ messages'[Len(messages')].text = Trim(textInput)
                    /\ ok => sent' = Append(sent, Trim(textInput))
                    /\ ~ok => sent' = sent]_vars

\* C30 witness: the input " a " was submitted, so that "a" is both in the log
\* and sent, and the session has since ended with "b" left in the input.
C30_TrimmedSentThenIdle ==
    /\ sent = << <<"a">> >>
    /\ \E k \in 1..Len(arrived) :
         /\ arrived[k] = <<"typed", <<"a">> >>
         /\ messages[k].text = <<"a">>
    /\ ~isConnected /\ textInput = <<"b">>

\* C31: whenever the wizard shows the results step, the stored resources were
\* retrieved for the zipcode and the state the form holds.
C31_ResultsMatchTheForm ==
    step = "results" =>
        \A resp \in received :
            /\ resp.form.zipcode = formData.zipcode
            /\ resp.form.state = formData.state

\* C32: every checkEligibility call made by fetchResults has a family size
\* of at least one and an income that is not negative.
C32_FormHandsValidHousehold ==
    \A c \in eligibility :
        c.familySize >= 1 /\ Le(Rat(0, 1), c.monthlyIncome)

\* C33: on the results step there is a stored result, and its eligibility and
\* its resources come from one fetchResults call: the eligibility is the one
\* computed for the form the lookup was started from and the resources are
\* the parse of that lookup's response.
C33_ResultsStepHasResults ==
    step = "results" =>
        /\ results # {}
        /\ \A r \in results, resp \in received :
             /\ r.eligibility = checkEligibility(resp.form.familySize,
                                                 resp.form.income, resp.form.state)
             /\ r.resources = parseResources(SnapResources(resp))

\* C33 witness: the results step after a second successful fetch.
C33_SecondResults ==
    /\ step = "results" /\ results # {}
    /\ snapCalls = 2 /\ alerts = 0 /\ fetches = EmptyBag

\* C34: at most one fetchResults call is in flight, loading is true exactly
\* while one is, and no getSnapResources call is started while loading.
C34_OneFetchInFlight ==
    /\ [](/\ BagCardinality(fetches) <= 1
          /\ loading <=> fetches # EmptyBag)
    /\ [][loading => snapCalls' = snapCalls]_vars

\* C34 witness: a fetch is in flight and the user, having gone back and
\* edited the location, is on the household step again.
C34_BackOnHouseholdWhileLoading ==
    /\ loading /\ step = "household"
    /\ \E f \in BagToSet(fetches) : f.form # formData

====
